---- MODULE Spec2Model ----
(***************************************************************************)
(* Model of sample/distributed-monolith/generator.py: the script that      *)
(* loads label pools, builds the node hierarchy, generates the edges of    *)
(* five relationship policies and writes three CSV tables.                 *)
(*                                                                         *)
(* The script is one sequential pass; pc is its position.  Every call of   *)
(* the random module is a nondeterministic choice over the values the call *)
(* can return.  An uncaught Python exception ends the run: pc = "aborted"  *)
(* and error names the exception.                                          *)
(*                                                                         *)
(* The module-level counts of the script (NUM_LAMBDAS = 35, ...) and the   *)
(* contents of resource_labels.csv are the inputs of a run; they are drawn *)
(* in Init from small sets so that the state space stays finite.           *)
(***************************************************************************)
EXTENDS Integers, Sequences, FiniteSets, TLC

VARIABLES
    csv,              \* rows of resource_labels.csv after the header: <<category, label>>
    cfg,              \* the NUM_* counts of the run
    pc,               \* position in the script
    row,              \* number of csv rows consumed by the load loop
    resource_labels,  \* category -> list of remaining labels
    nodes,            \* list of node rows
    edges,            \* list of edge rows
    edge_counter,     \* next edge number
    dbi,              \* index into DBS of the build loop over engines
    i,                \* loop index: iterations of the current loop already done
    count,            \* value returned by random.randint for the current inner loop
    k,                \* iterations of the current inner loop already done
    db,               \* engine picked by random.choice(DBS) for the current procedure
    api_targets,      \* result of random.sample for the gateway routes
    s3_connections,   \* result of random.sample for the storage bindings
    written,          \* list of the CSV files written so far, in order
    error             \* "none" or the exception that ended the run

vars == <<csv, cfg, pc, row, resource_labels, nodes, edges, edge_counter, dbi, i,
          count, k, db, api_targets, s3_connections, written, error>>

-----------------------------------------------------------------------------
(* Bounds of the model *)

\* largest number of labels a pool holds beyond those a complete build draws
MaxSurplus == 1
\* largest NUM_API_GATEWAY_TARGETS + NUM_S3_BUCKETS
MaxRest == 3

-----------------------------------------------------------------------------
(* Program constants *)

DBS == <<"mysql", "postgres">>

Categories == {"lambda_function", "ecs_container", "database_table", "s3_object_store"}

\* order of the four random.shuffle calls
ShuffleOrder == <<"lambda_function", "ecs_container", "database_table", "s3_object_store">>

\* LayerIds with the entry of one layer left out of LAYER_COLORS
LayerIds_NoTable == <<"database", "lambda", "container", "stored_proc", "api_gateway", "s3", "root">>
\* keys of LAYER_COLORS, in insertion order
LayerIds == <<"database", "table", "lambda", "container", "stored_proc",
              "api_gateway", "s3", "root">>

LAYER_COLORS ==
    [l \in {LayerIds[n] : n \in 1..Len(LayerIds)} |->
        CASE l = "database"    -> <<"ffcccc", "990000", "660000">>
          [] l = "table"       -> <<"ffebcc", "996600", "663300">>
          [] l = "lambda"      -> <<"ccffcc", "009900", "006600">>
          [] l = "container"   -> <<"ccccff", "000099", "000066">>
          [] l = "stored_proc" -> <<"ffccff", "990099", "660066">>
          [] l = "api_gateway" -> <<"ffff99", "999900", "666600">>
          [] l = "s3"          -> <<"ccffff", "009999", "006666">>
          [] l = "root"        -> <<"ffffff", "000000", "000000">>]

\* str.capitalize(): first character upper-cased, the rest lower-cased
Capitalize(s) ==
    CASE s = "database"    -> "Database"
      [] s = "table"       -> "Table"
      [] s = "lambda"      -> "Lambda"
      [] s = "container"   -> "Container"
      [] s = "stored_proc" -> "Stored_proc"
      [] s = "api_gateway" -> "Api_gateway"
      [] s = "s3"          -> "S3"
      [] s = "root"        -> "Root"

\* str.upper() of an engine name
Upper(s) ==
    CASE s = "mysql"    -> "MYSQL"
      [] s = "postgres" -> "POSTGRES"

\* layers as a table derived from the run: one record per layer some node
\* built so far carries
layers_FromNodes ==
    LET used == SelectSeq(LayerIds, LAMBDA l : \E n \in 1..Len(nodes) : nodes[n].layer = l)
    IN  [n \in 1..Len(used) |-> <<used[n], Capitalize(used[n])>> \o LAYER_COLORS[used[n]]]
\* line 45: one record per entry of LAYER_COLORS
layers ==
    [n \in 1..Len(LayerIds) |->
        <<LayerIds[n], Capitalize(LayerIds[n])>> \o LAYER_COLORS[LayerIds[n]]]

\* Partitions with one partition left out of the list
Partitions_NoLambda == <<"database", "container", "stored_proc", "api_gateway", "s3">>
\* the partitions of the loop at line 54, in order
Partitions == <<"database", "lambda", "container", "stored_proc", "api_gateway", "s3">>

\* bounds of the random.randint calls that size the inner loops: (3, 7) at
\* line 105, (2, 5) at line 113, (10, 20) at lines 118 and 122, each scaled
\* down to a range of two values
ACCESS_MIN == 1
ACCESS_MAX == 2
EXEC_MIN == 1
EXEC_MAX == 2
CALLS_MIN == 1
CALLS_MAX == 2

-----------------------------------------------------------------------------
(* Identifier scheme: the f-strings of the script *)

\* TableId without the engine prefix, as f"table_{i+1}" would give
TableId_NoEngine(d, n) == "table_" \o ToString(n)
TableId(d, n) == d \o "_table_" \o ToString(n)
LambdaId(n) == "lambda_" \o ToString(n)
ContainerId(n) == "container_" \o ToString(n)
StoredProcId(n) == "stored_proc_" \o ToString(n)
S3Id(n) == "s3_" \o ToString(n)
EdgeId(n) == "edge_" \o ToString(n)

\* [f"lambda_{i+1}" for i in range(NUM_LAMBDAS)] + [f"container_{i+1}" for i in range(NUM_CONTAINERS)]
LambdaIds == [n \in 1..cfg.lambdas |-> LambdaId(n)]
ContainerIds == [n \in 1..cfg.containers |-> ContainerId(n)]
Services == LambdaIds \o ContainerIds
StoredProcIds == [n \in 1..cfg.procs |-> StoredProcId(n)]
\* S3Ids numbered from 0, as f"s3_{i}" would
S3Ids_FromZero == [n \in 1..cfg.buckets |-> S3Id(n - 1)]
S3Ids == [n \in 1..cfg.buckets |-> S3Id(n)]

-----------------------------------------------------------------------------
(* Helpers *)

\* the exceptions the script can raise: resource_labels[row[0]] on an unknown
\* key, list.pop() on an empty list, random.sample of more than the
\* population, random.randint on an empty range, random.choice of an empty list
KeyError == "KeyError"
PopFromEmpty == "IndexError: pop from empty list"
SampleTooLarge == "ValueError: Sample larger than population or is negative"
EmptyRange == "ValueError: empty range for randrange()"
ChoiceFromEmpty == "IndexError: Cannot choose from an empty sequence"

Range(s) == {s[n] : n \in 1..Len(s)}

\* the lists random.shuffle can leave: every reordering of s
Shuffles(s) ==
    {[n \in 1..Len(s) |-> s[p[n]]] :
        p \in {q \in [1..Len(s) -> 1..Len(s)] : \A a, b \in 1..Len(s) : a # b => q[a] # q[b]}}

\* the arrangements of n positions of the population, no position twice
Arrangements(population, n) ==
    {[m \in 1..n |-> population[p[m]]] :
        p \in {q \in [1..n -> 1..Len(population)] : \A a, b \in 1..n : a # b => q[a] # q[b]}}

Min(a, b) == IF a < b THEN a ELSE b

\* random_sample as a shuffle cut to at most n elements would behave
random_sample_Truncating(population, n) ==
    {<<"return", s>> : s \in Arrangements(population, Min(n, Len(population)))}
\* random_sample as random.choices would behave: positions may repeat
random_sample_WithReplacement(population, n) ==
    IF n > Len(population)
    THEN {<<"raise", SampleTooLarge>>}
    ELSE {<<"return", s>> : s \in [1..n -> Range(population)]}
\* the outcomes of random.sample(population, n): ValueError when n exceeds
\* the population, else any arrangement of n of its positions
random_sample(population, n) ==
    IF n > Len(population)
    THEN {<<"raise", SampleTooLarge>>}
    ELSE {<<"return", s>> : s \in Arrangements(population, n)}

\* list.pop(): the last element, and the list without it
Last(s) == s[Len(s)]
\* Front as s[-1] would leave it: the label is read but stays in the pool
Front_NoRemove(s) == s
Front(s) == SubSeq(s, 1, Len(s) - 1)

\* the row add_node appends
NodeRow(node_id, label, layer, is_partition, belongs_to) ==
    [id |-> node_id, label |-> label, layer |-> layer,
     is_partition |-> IF is_partition THEN "true" ELSE "false",
     belongs_to |-> belongs_to, comment |-> ""]

\* the row add_edge appends
EdgeRow(n, source, target, label, layer) ==
    [id |-> EdgeId(n), source |-> source, target |-> target, label |-> label,
     layer |-> layer, comment |-> ""]

-----------------------------------------------------------------------------
(* Inputs of a run *)

\* the label the n-th row of a category carries when all rows differ
LabelOf(cat, n) == cat \o "#" \o ToString(n)

\* the rows of one category: n rows, pairwise distinct unless dup, in which
\* case the last row repeats the label of the first
RowsOf(cat, n, dup) ==
    [m \in 1..n |-> <<cat, IF dup /\ m = n THEN LabelOf(cat, 1) ELSE LabelOf(cat, m)>>]

\* a label file: n[cat] rows of each category; bad = 1 puts a row of an
\* unknown category first, bad = 2 puts it last, bad = 0 leaves it out
FileOf(n, dup, bad) ==
    LET good == RowsOf("lambda_function", n["lambda_function"], dup)
                \o RowsOf("ecs_container", n["ecs_container"], dup)
                \o RowsOf("database_table", n["database_table"], dup)
                \o RowsOf("s3_object_store", n["s3_object_store"], dup)
    IN  CASE bad = 0 -> good
          [] bad = 1 -> <<<<"unknown", "x">>>> \o good
          [] bad = 2 -> good \o <<<<"unknown", "x">>>>

\* the number of labels a complete build pops from each pool
Demand(c) ==
    [cat \in Categories |->
        CASE cat = "database_table"  -> Len(DBS) * c.tables
          [] cat = "lambda_function" -> c.lambdas
          [] cat = "ecs_container"   -> c.containers
          [] cat = "s3_object_store" -> c.buckets]

\* the configurations explored: every combination of tables per engine,
\* functions, containers and stored procedures with at most two services
\* (two tables per engine only beside at most one other leaf, two stored
\* procedures only without services); gateway
\* targets and object stores are varied in the configuration with one table
\* per engine, one function and one container, where every policy can run
Configs ==
    {c \in [tables : 0..2, lambdas : 0..2, containers : 0..1, procs : 0..2,
            targets : 0..MaxRest, buckets : 0..MaxRest] :
        /\ c.lambdas + c.containers <= 2
        /\ c.procs = 2 => c.lambdas + c.containers = 0
        /\ c.tables = 2 => c.lambdas + c.containers + c.procs <= 1
        /\ c.targets + c.buckets <= MaxRest
        /\ c.targets + c.buckets > 0 => c.tables = 1 /\ c.lambdas = 1 /\ c.containers = 1
        /\ (c.procs = 1 /\ c.targets + c.buckets > 0) => c.targets = 1 /\ c.buckets = 1}

\* two small configurations under which every label file is explored: one
\* that runs to the end, one that asks for two functions
BaseConfigs ==
    {[tables |-> 1, lambdas |-> 1, containers |-> 1, procs |-> 0, targets |-> 0, buckets |-> 1],
     [tables |-> 1, lambdas |-> 2, containers |-> 0, procs |-> 0, targets |-> 0, buckets |-> 0]}

\* pool sizes that differ from the demand of c in at most one category,
\* which is short by any number of labels or long by at most MaxSurplus
PoolSizes(c) ==
    {n \in [Categories -> 0..(2 * Len(DBS) + MaxSurplus)] :
        /\ \A cat \in Categories : n[cat] <= Demand(c)[cat] + MaxSurplus
        /\ \A c1, c2 \in Categories :
              (n[c1] # Demand(c)[c1] /\ n[c2] # Demand(c)[c2]) => c1 = c2}

\* the inputs of the runs explored: every configuration with a file that
\* holds exactly the labels it needs, and the base configurations with
\* every file that is short or long in one category, repeats a label or
\* holds a malformed row
Inputs ==
    {<<c, FileOf(Demand(c), FALSE, 0)>> : c \in Configs}
    \cup UNION {{<<c, FileOf(n, dup, bad)>> : n \in PoolSizes(c), dup \in BOOLEAN, bad \in 0..2} :
                    c \in BaseConfigs}

-----------------------------------------------------------------------------
(* The script *)

\* Abort as a handler that logs the exception and lets the script go on to
\* write its tables would behave
Abort_Swallow(e) ==
    /\ pc' = "write"
    /\ i' = 0
    /\ error' = e
    /\ UNCHANGED <<csv, cfg, row, resource_labels, nodes, edges, edge_counter, dbi,
                   count, k, db, api_targets, s3_connections, written>>
\* an uncaught exception: the interpreter exits, nothing later runs
Abort(e) ==
    /\ pc' = "aborted"
    /\ error' = e
    /\ UNCHANGED <<csv, cfg, row, resource_labels, nodes, edges, edge_counter, dbi, i,
                   count, k, db, api_targets, s3_connections, written>>

\* lines 21-25: one iteration of the reader loop
LoadRow ==
    /\ pc = "load"
    /\ row < Len(csv)
    /\ IF csv[row + 1][1] \in DOMAIN resource_labels
       THEN /\ resource_labels' =
                  [resource_labels EXCEPT ![csv[row + 1][1]] = Append(@, csv[row + 1][2])]
            /\ row' = row + 1
            /\ UNCHANGED <<csv, cfg, pc, nodes, edges, edge_counter, dbi, i, count, k, db,
                           api_targets, s3_connections, written, error>>
       ELSE Abort(KeyError)

\* the reader is exhausted
LoadDone ==
    /\ pc = "load"
    /\ row = Len(csv)
    /\ pc' = "shuffle"
    /\ i' = 0
    /\ UNCHANGED <<csv, cfg, row, resource_labels, nodes, edges, edge_counter, dbi,
                   count, k, db, api_targets, s3_connections, written, error>>

\* lines 28-31: the four random.shuffle calls, one per step
Shuffle ==
    /\ pc = "shuffle"
    /\ \E s \in Shuffles(resource_labels[ShuffleOrder[i + 1]]) :
          resource_labels' = [resource_labels EXCEPT ![ShuffleOrder[i + 1]] = s]
    /\ i' = IF i + 1 = Len(ShuffleOrder) THEN 0 ELSE i + 1
    /\ pc' = IF i + 1 = Len(ShuffleOrder) THEN "root" ELSE "shuffle"
    /\ UNCHANGED <<csv, cfg, row, nodes, edges, edge_counter, dbi, count, k, db,
                   api_targets, s3_connections, written, error>>

\* lines 49-50: add_node
add_node(node_id, label, layer, is_partition, belongs_to) ==
    nodes' = Append(nodes, NodeRow(node_id, label, layer, is_partition, belongs_to))

\* line 53
AddRoot ==
    /\ pc = "root"
    /\ add_node("project", "Project", "root", TRUE, "")
    /\ pc' = "partitions"
    /\ i' = 0
    /\ UNCHANGED <<csv, cfg, row, resource_labels, edges, edge_counter, dbi, count, k, db,
                   api_targets, s3_connections, written, error>>

\* lines 54-55
AddPartition ==
    /\ pc = "partitions"
    /\ add_node(Partitions[i + 1], Capitalize(Partitions[i + 1]), Partitions[i + 1],
                TRUE, "project")
    /\ i' = IF i + 1 = Len(Partitions) THEN 0 ELSE i + 1
    /\ pc' = IF i + 1 = Len(Partitions) THEN "dbs" ELSE "partitions"
    /\ dbi' = IF i + 1 = Len(Partitions) THEN 1 ELSE dbi
    /\ UNCHANGED <<csv, cfg, row, resource_labels, edges, edge_counter, count, k, db,
                   api_targets, s3_connections, written, error>>

\* lines 58-59: the next engine of DBS
AddDatabase ==
    /\ pc = "dbs"
    /\ dbi <= Len(DBS)
    /\ add_node(DBS[dbi], Upper(DBS[dbi]), "database", TRUE, "database")
    /\ pc' = "tables"
    /\ i' = 0
    /\ UNCHANGED <<csv, cfg, row, resource_labels, edges, edge_counter, dbi, count, k, db,
                   api_targets, s3_connections, written, error>>

\* the loop over DBS is over
DatabasesDone ==
    /\ pc = "dbs"
    /\ dbi > Len(DBS)
    /\ pc' = "lambdas"
    /\ i' = 0
    /\ dbi' = 0
    /\ UNCHANGED <<csv, cfg, row, resource_labels, nodes, edges, edge_counter, count, k, db,
                   api_targets, s3_connections, written, error>>

\* DrawLeaf with a fallback for an empty pool: the leaf is labelled with its id
DrawLeaf_Fallback(phase, cat, node_id, layer, belongs_to) ==
    /\ pc = phase
    /\ IF resource_labels[cat] = <<>>
       THEN /\ add_node(node_id, node_id, layer, FALSE, belongs_to)
            /\ UNCHANGED resource_labels
       ELSE /\ resource_labels' = [resource_labels EXCEPT ![cat] = Front(@)]
            /\ add_node(node_id, Last(resource_labels[cat]), layer, FALSE, belongs_to)
    /\ i' = i + 1
    /\ UNCHANGED <<csv, cfg, pc, row, edges, edge_counter, dbi, count, k, db,
                   api_targets, s3_connections, written, error>>
\* one iteration of a loop that pops a label of category cat and adds a leaf;
\* list.pop() on an empty list raises IndexError
DrawLeaf(phase, cat, node_id, layer, belongs_to) ==
    /\ pc = phase
    /\ IF resource_labels[cat] = <<>>
       THEN Abort(PopFromEmpty)
       ELSE /\ resource_labels' = [resource_labels EXCEPT ![cat] = Front(@)]
            /\ add_node(node_id, Last(resource_labels[cat]), layer, FALSE, belongs_to)
            /\ i' = i + 1
            /\ UNCHANGED <<csv, cfg, pc, row, edges, edge_counter, dbi, count, k, db,
                           api_targets, s3_connections, written, error>>

\* a counted loop is over: on to the next phase
LoopDone(phase, next) ==
    /\ pc = phase
    /\ pc' = next
    /\ i' = 0
    /\ UNCHANGED <<csv, cfg, row, resource_labels, nodes, edges, edge_counter, dbi,
                   count, k, db, api_targets, s3_connections, written, error>>

\* lines 60-62
AddTable ==
    /\ i < cfg.tables
    /\ DrawLeaf("tables", "database_table", TableId(DBS[dbi], i + 1), "table", DBS[dbi])

TablesDone ==
    /\ pc = "tables"
    /\ i = cfg.tables
    /\ pc' = "dbs"
    /\ dbi' = dbi + 1
    /\ i' = 0
    /\ UNCHANGED <<csv, cfg, row, resource_labels, nodes, edges, edge_counter, count, k, db,
                   api_targets, s3_connections, written, error>>

\* lines 65-67
AddLambda ==
    /\ i < cfg.lambdas
    /\ DrawLeaf("lambdas", "lambda_function", LambdaId(i + 1), "lambda", "lambda")

LambdasDone == i = cfg.lambdas /\ LoopDone("lambdas", "containers")

\* lines 70-72
AddContainer ==
    /\ i < cfg.containers
    /\ DrawLeaf("containers", "ecs_container", ContainerId(i + 1), "container", "container")

ContainersDone == i = cfg.containers /\ LoopDone("containers", "procs")

\* lines 75-77: the parent is random.choice(DBS)
AddStoredProc ==
    /\ pc = "procs"
    /\ i < cfg.procs
    /\ \E d \in Range(DBS) :
          add_node(StoredProcId(i + 1), "Stored Procedure " \o ToString(i + 1),
                   "stored_proc", FALSE, d)
    /\ i' = i + 1
    /\ UNCHANGED <<csv, cfg, pc, row, resource_labels, edges, edge_counter, dbi, count, k,
                   db, api_targets, s3_connections, written, error>>

StoredProcsDone == i = cfg.procs /\ LoopDone("procs", "gateway")

\* line 80
AddGateway ==
    /\ pc = "gateway"
    /\ add_node("api_gateway_instance", "API Gateway", "api_gateway", FALSE, "api_gateway")
    /\ pc' = "buckets"
    /\ i' = 0
    /\ UNCHANGED <<csv, cfg, row, resource_labels, edges, edge_counter, dbi, count, k, db,
                   api_targets, s3_connections, written, error>>

\* lines 83-85
AddS3 ==
    /\ i < cfg.buckets
    /\ DrawLeaf("buckets", "s3_object_store", S3Id(i + 1), "s3", "s3")

S3Done == i = cfg.buckets /\ LoopDone("buckets", "sample_routes")

-----------------------------------------------------------------------------
(* Edges *)

\* add_edge without the increment of edge_counter
add_edge_NoIncrement(source, target, label, layer) ==
    /\ edges' = Append(edges, EdgeRow(edge_counter, source, target, label, layer))
    /\ edge_counter' = edge_counter
\* lines 91-95: add_edge
add_edge(source, target, label, layer) ==
    /\ edges' = Append(edges, EdgeRow(edge_counter, source, target, label, layer))
    /\ edge_counter' = edge_counter + 1

\* lines 98-99
SampleRoutes ==
    /\ pc = "sample_routes"
    /\ \E outcome \in random_sample(Services, cfg.targets) :
          IF outcome[1] = "raise"
          THEN Abort(outcome[2])
          ELSE /\ api_targets' = outcome[2]
               /\ pc' = "routes"
               /\ i' = 0
               /\ UNCHANGED <<csv, cfg, row, resource_labels, nodes, edges, edge_counter,
                              dbi, count, k, db, s3_connections, written, error>>

\* AddRoute that also notes the route on the gateway node it starts from
AddRoute_MarksGateway ==
    /\ pc = "routes"
    /\ i < Len(api_targets)
    /\ add_edge("api_gateway_instance", api_targets[i + 1], "API Route", "api_gateway")
    /\ nodes' = [n \in 1..Len(nodes) |->
                    IF nodes[n].id = "api_gateway_instance"
                    THEN [nodes[n] EXCEPT !.comment = "routed"]
                    ELSE nodes[n]]
    /\ i' = i + 1
    /\ UNCHANGED <<csv, cfg, pc, row, resource_labels, dbi, count, k, db,
                   api_targets, s3_connections, written, error>>
\* lines 100-101
AddRoute ==
    /\ pc = "routes"
    /\ i < Len(api_targets)
    /\ add_edge("api_gateway_instance", api_targets[i + 1], "API Route", "api_gateway")
    /\ i' = i + 1
    /\ UNCHANGED <<csv, cfg, pc, row, resource_labels, nodes, dbi, count, k, db,
                   api_targets, s3_connections, written, error>>

RoutesDone == i = Len(api_targets) /\ LoopDone("routes", "access")

\* TableChoices as random.randint(0, NUM_TABLES_PER_DB) would have it
TableChoices_FromZero == 0..cfg.tables
\* the values random.randint(1, NUM_TABLES_PER_DB) can return
TableChoices == 1..cfg.tables

\* AccessBegin with an upper bound one too large, as randrange(3, 9) would draw
AccessBegin_OneMore ==
    /\ pc = "access"
    /\ i < Len(Services)
    /\ count' \in ACCESS_MIN..(ACCESS_MAX + 1)
    /\ k' = 0
    /\ pc' = "access_edges"
    /\ UNCHANGED <<csv, cfg, row, resource_labels, nodes, edges, edge_counter, dbi, i, db,
                   api_targets, s3_connections, written, error>>
\* line 105: random.randint sizes the inner loop of the next service
AccessBegin ==
    /\ pc = "access"
    /\ i < Len(Services)
    /\ count' \in ACCESS_MIN..ACCESS_MAX
    /\ k' = 0
    /\ pc' = "access_edges"
    /\ UNCHANGED <<csv, cfg, row, resource_labels, nodes, edges, edge_counter, dbi, i, db,
                   api_targets, s3_connections, written, error>>

\* lines 106-108: random.randint(1, NUM_TABLES_PER_DB) raises ValueError on
\* an empty range; after the last edge of a service the outer loop goes on
AccessEdge ==
    /\ pc = "access_edges"
    /\ IF TableChoices = {}
       THEN Abort(EmptyRange)
       ELSE /\ \E d \in Range(DBS), t \in TableChoices :
                  add_edge(Services[i + 1], TableId(d, t), "Reads/Writes", "table")
            /\ k' = IF k + 1 = count THEN 0 ELSE k + 1
            /\ count' = IF k + 1 = count THEN 0 ELSE count
            /\ i' = IF k + 1 = count THEN i + 1 ELSE i
            /\ pc' = IF k + 1 = count THEN "access" ELSE "access_edges"
            /\ UNCHANGED <<csv, cfg, row, resource_labels, nodes, dbi, db,
                           api_targets, s3_connections, written, error>>

AccessDone == i = Len(Services) /\ LoopDone("access", "exec")

\* lines 112-113: one engine and one count per stored procedure
ExecBegin ==
    /\ pc = "exec"
    /\ i < Len(StoredProcIds)
    /\ db' \in Range(DBS)
    /\ count' \in EXEC_MIN..EXEC_MAX
    /\ k' = 0
    /\ pc' = "exec_edges"
    /\ UNCHANGED <<csv, cfg, row, resource_labels, nodes, edges, edge_counter, dbi, i,
                   api_targets, s3_connections, written, error>>

\* ExecEdge with the engine picked inside the inner loop, once per edge
ExecEdge_EnginePerEdge ==
    /\ pc = "exec_edges"
    /\ IF TableChoices = {}
       THEN Abort(EmptyRange)
       ELSE /\ \E d \in Range(DBS), t \in TableChoices :
                  add_edge(StoredProcIds[i + 1], TableId(d, t), "Executes", "stored_proc")
            /\ k' = IF k + 1 = count THEN 0 ELSE k + 1
            /\ count' = IF k + 1 = count THEN 0 ELSE count
            /\ db' = IF k + 1 = count THEN "" ELSE db
            /\ i' = IF k + 1 = count THEN i + 1 ELSE i
            /\ pc' = IF k + 1 = count THEN "exec" ELSE "exec_edges"
            /\ UNCHANGED <<csv, cfg, row, resource_labels, nodes, dbi,
                           api_targets, s3_connections, written, error>>
\* lines 114-115
ExecEdge ==
    /\ pc = "exec_edges"
    /\ IF TableChoices = {}
       THEN Abort(EmptyRange)
       ELSE /\ \E t \in TableChoices :
                  add_edge(StoredProcIds[i + 1], TableId(db, t), "Executes", "stored_proc")
            /\ k' = IF k + 1 = count THEN 0 ELSE k + 1
            /\ count' = IF k + 1 = count THEN 0 ELSE count
            /\ db' = IF k + 1 = count THEN "" ELSE db
            /\ i' = IF k + 1 = count THEN i + 1 ELSE i
            /\ pc' = IF k + 1 = count THEN "exec" ELSE "exec_edges"
            /\ UNCHANGED <<csv, cfg, row, resource_labels, nodes, dbi,
                           api_targets, s3_connections, written, error>>

ExecDone == i = Len(StoredProcIds) /\ LoopDone("exec", "calls")

\* lines 118 and 122: random.randint sizes a batch of peer calls; i counts
\* the batches already done
CallsBegin ==
    /\ pc = "calls"
    /\ count' \in CALLS_MIN..CALLS_MAX
    /\ k' = 0
    /\ pc' = "calls_edges"
    /\ UNCHANGED <<csv, cfg, row, resource_labels, nodes, edges, edge_counter, dbi, i, db,
                   api_targets, s3_connections, written, error>>

\* CallEdge with the layer arguments of the two batches exchanged
CallEdge_LayersSwapped ==
    /\ pc = "calls_edges"
    /\ IF cfg.containers = 0 \/ cfg.lambdas = 0
       THEN Abort(ChoiceFromEmpty)
       ELSE /\ \E c \in Range(ContainerIds), l \in Range(LambdaIds) :
                  IF i = 0
                  THEN add_edge(c, l, "API Call", "lambda")
                  ELSE add_edge(l, c, "API Call", "container")
            /\ k' = IF k + 1 = count THEN 0 ELSE k + 1
            /\ count' = IF k + 1 = count THEN 0 ELSE count
            /\ i' = IF k + 1 = count THEN (IF i = 0 THEN 1 ELSE 0) ELSE i
            /\ pc' = IF k + 1 = count
                     THEN (IF i = 0 THEN "calls" ELSE "sample_bindings")
                     ELSE "calls_edges"
            /\ UNCHANGED <<csv, cfg, row, resource_labels, nodes, dbi, db,
                           api_targets, s3_connections, written, error>>
\* lines 119-120 (first batch: container to lambda) and 123-124 (second
\* batch: lambda to container); random.choice of an empty list raises
\* IndexError; after the last edge of the second batch the script goes on to
\* the storage bindings
CallEdge ==
    /\ pc = "calls_edges"
    /\ IF cfg.containers = 0 \/ cfg.lambdas = 0
       THEN Abort(ChoiceFromEmpty)
       ELSE /\ \E c \in Range(ContainerIds), l \in Range(LambdaIds) :
                  IF i = 0
                  THEN add_edge(c, l, "API Call", "container")
                  ELSE add_edge(l, c, "API Call", "lambda")
            /\ k' = IF k + 1 = count THEN 0 ELSE k + 1
            /\ count' = IF k + 1 = count THEN 0 ELSE count
            /\ i' = IF k + 1 = count THEN (IF i = 0 THEN 1 ELSE 0) ELSE i
            /\ pc' = IF k + 1 = count
                     THEN (IF i = 0 THEN "calls" ELSE "sample_bindings")
                     ELSE "calls_edges"
            /\ UNCHANGED <<csv, cfg, row, resource_labels, nodes, dbi, db,
                           api_targets, s3_connections, written, error>>

\* the number of pairs zip yields: it stops at the end of the shorter list
Pairs(a, b) == Min(Len(a), Len(b))

\* lines 127-128; with nothing to pair the loop at line 129 has no iteration
SampleBindings ==
    /\ pc = "sample_bindings"
    /\ \E outcome \in random_sample(Services, cfg.buckets) :
          IF outcome[1] = "raise"
          THEN Abort(outcome[2])
          ELSE /\ s3_connections' = outcome[2]
               /\ pc' = IF Pairs(S3Ids, outcome[2]) = 0 THEN "write" ELSE "bindings"
               /\ i' = 0
               /\ UNCHANGED <<csv, cfg, row, resource_labels, nodes, edges, edge_counter,
                              dbi, count, k, db, api_targets, written, error>>

\* lines 129-130: one pair of the zip; after the last pair the script goes
\* on to write the tables
AddBinding ==
    /\ pc = "bindings"
    /\ add_edge(s3_connections[i + 1], S3Ids[i + 1], "Stores/Reads", "s3")
    /\ i' = IF i + 1 = Pairs(S3Ids, s3_connections) THEN 0 ELSE i + 1
    /\ pc' = IF i + 1 = Pairs(S3Ids, s3_connections) THEN "write" ELSE "bindings"
    /\ UNCHANGED <<csv, cfg, row, resource_labels, nodes, dbi, count, k, db,
                   api_targets, s3_connections, written, error>>

\* the three write_csv calls of lines 139-141, in order
OutputFiles == <<"nodes.csv", "edges.csv", "layers.csv">>

\* lines 133-141: one write_csv call
WriteCsv ==
    /\ pc = "write"
    /\ written' = Append(written, OutputFiles[i + 1])
    /\ i' = IF i + 1 = Len(OutputFiles) THEN 0 ELSE i + 1
    /\ pc' = IF i + 1 = Len(OutputFiles) THEN "done" ELSE "write"
    /\ UNCHANGED <<csv, cfg, row, resource_labels, nodes, edges, edge_counter, dbi,
                   count, k, db, api_targets, s3_connections, error>>

-----------------------------------------------------------------------------
(* Specification *)

Init ==
    /\ \E input \in Inputs :
          /\ cfg = input[1]
          /\ csv = input[2]
    /\ pc = "load"
    /\ row = 0
    /\ resource_labels = [c \in Categories |-> <<>>]
    /\ nodes = <<>>
    /\ edges = <<>>
    /\ edge_counter = 1
    /\ dbi = 0
    /\ i = 0
    /\ count = 0
    /\ k = 0
    /\ db = ""
    /\ api_targets = <<>>
    /\ s3_connections = <<>>
    /\ written = <<>>
    /\ error = "none"

Next ==
    \/ LoadRow \/ LoadDone \/ Shuffle
    \/ AddRoot \/ AddPartition \/ AddDatabase \/ DatabasesDone
    \/ AddTable \/ TablesDone \/ AddLambda \/ LambdasDone
    \/ AddContainer \/ ContainersDone \/ AddStoredProc \/ StoredProcsDone
    \/ AddGateway \/ AddS3 \/ S3Done
    \/ SampleRoutes \/ AddRoute \/ RoutesDone
    \/ AccessBegin \/ AccessEdge \/ AccessDone
    \/ ExecBegin \/ ExecEdge \/ ExecDone
    \/ CallsBegin \/ CallEdge
    \/ SampleBindings \/ AddBinding
    \/ WriteCsv

Spec == Init /\ [][Next]_vars

-----------------------------------------------------------------------------
(* Vocabulary of the properties *)

IsDistinct(s) == \A a, b \in 1..Len(s) : a # b => s[a] # s[b]

Occurrences(s, x) == Cardinality({n \in 1..Len(s) : s[n] = x})

NodeIds == {nodes[n].id : n \in 1..Len(nodes)}

\* the layer of the leaf nodes labelled from a pool
LeafLayer(cat) ==
    CASE cat = "database_table"  -> "table"
      [] cat = "lambda_function" -> "lambda"
      [] cat = "ecs_container"   -> "container"
      [] cat = "s3_object_store" -> "s3"

LeafNodes(layer) == SelectSeq(nodes, LAMBDA r : r.layer = layer /\ r.is_partition = "false")

\* the labels drawn from a pool so far, in drawing order: the labels of its leaves
Drawn(cat) ==
    LET leaves == LeafNodes(LeafLayer(cat))
    IN  [n \in 1..Len(leaves) |-> leaves[n].label]

\* the labels the file holds for a category, in file order
Loaded(cat) ==
    LET rows == SelectSeq(csv, LAMBDA r : r[1] = cat)
    IN  [n \in 1..Len(rows) |-> rows[n][2]]

\* the edges a policy has appended, by the label the policy gives them
EdgesOf(label) == SelectSeq(edges, LAMBDA e : e.label = label)

EdgePhases ==
    {"sample_routes", "routes", "access", "access_edges", "exec", "exec_edges",
     "calls", "calls_edges", "sample_bindings", "bindings"}

\* the node build has run to its end
BuildComplete ==
    \/ pc \in EdgePhases \cup {"write", "done"}
    \/ pc = "aborted" /\ error \in {SampleTooLarge, EmptyRange, ChoiceFromEmpty}

\* the number of nodes of a complete build
NodeTotal ==
    1 + Len(Partitions) + Len(DBS) * (1 + cfg.tables) + cfg.lambdas + cfg.containers
      + cfg.procs + 1 + cfg.buckets

-----------------------------------------------------------------------------
(* C1 *)

-----------------------------------------------------------------------------
(* C2 *)

\* C2: at every step, every node with a non-empty belongs_to names the id of
\* a node appended strictly earlier; the first node is the root and it is the
\* only node with an empty belongs_to.
C2_OwnershipIsATree ==
    /\ \A n \in 1..Len(nodes) :
          nodes[n].belongs_to # "" => \E m \in 1..(n - 1) : nodes[m].id = nodes[n].belongs_to
    /\ \A n \in 1..Len(nodes) : nodes[n].belongs_to = "" <=> n = 1
    /\ Len(nodes) >= 1 => nodes[1].id = "project"
    /\ BuildComplete => Len(nodes) = NodeTotal

\* a complete collection with a table, a function, a container, an object
\* store and a stored procedure owned by the second engine
C2_Witness ==
    /\ pc = "done"
    /\ \E n \in 1..Len(nodes) : nodes[n].layer = "stored_proc" /\ nodes[n].belongs_to = DBS[2]
    /\ \E n \in 1..Len(nodes) : nodes[n].id = TableId(DBS[2], 1)
    /\ \E n \in 1..Len(nodes) : nodes[n].id = LambdaId(1) /\ nodes[n].belongs_to = "lambda"
    /\ \E n \in 1..Len(nodes) : nodes[n].id = ContainerId(1)
    /\ \E n \in 1..Len(nodes) : nodes[n].id = S3Id(1)

-----------------------------------------------------------------------------
(* C3 *)

\* C3: every edge in the edge list has a source and a target that are ids of
\* nodes in the node list.
C3_EdgesResolve ==
    LET ids == NodeIds
    IN  \A n \in 1..Len(edges) : edges[n].source \in ids /\ edges[n].target \in ids

PolicyLabels == {"API Route", "Reads/Writes", "Executes", "API Call", "Stores/Reads"}

\* a complete run in which all five policies appended edges
C3_Witness ==
    /\ pc = "done"
    /\ {edges[n].label : n \in 1..Len(edges)} = PolicyLabels
    /\ \E n \in 1..Len(edges) : edges[n].target = TableId(DBS[2], 1)

-----------------------------------------------------------------------------
(* C4 *)

\* the id column of the Layer collection
LayerColumn == {layers[n][1] : n \in 1..Len(layers)}

\* C4: the layer of every node and of every edge is an id of the Layer
\* collection, and the collection has the eight fixed ids.
C4_LayersResolve ==
    /\ {nodes[n].layer : n \in 1..Len(nodes)} \subseteq LayerColumn
    /\ {edges[n].layer : n \in 1..Len(edges)} \subseteq LayerColumn
    /\ LayerColumn \subseteq {"database", "table", "lambda", "container", "stored_proc",
                              "api_gateway", "s3", "root"}

\* a complete run whose nodes use all eight layers and whose edges use the
\* five layers the policies pass
C4_Witness ==
    /\ pc = "done"
    /\ {nodes[n].layer : n \in 1..Len(nodes)} = LayerColumn
    /\ {edges[n].layer : n \in 1..Len(edges)}
           = {"api_gateway", "table", "stored_proc", "container", "lambda", "s3"}

-----------------------------------------------------------------------------
(* C5 *)

\* the place of a policy in the order of execution, by the label of its edges
PolicyRank(label) ==
    CASE label = "API Route"    -> 1
      [] label = "Reads/Writes" -> 2
      [] label = "Executes"     -> 3
      [] label = "API Call"     -> 4
      [] label = "Stores/Reads" -> 5

\* C5: the k-th edge appended has id edge_k, whatever policy appended it, the
\* counter is one ahead of the number of edges, and the edges of an earlier
\* policy all come before (so have smaller numbers than) those of a later one.
C5_EdgeIdsSequential ==
    /\ \A n \in 1..Len(edges) : edges[n].id = EdgeId(n)
    /\ edge_counter = Len(edges) + 1
    /\ \A m, n \in 1..Len(edges) : m # n => edges[m].id # edges[n].id
    /\ \A m, n \in 1..Len(edges) :
          PolicyRank(edges[m].label) < PolicyRank(edges[n].label) => m < n

\* a complete run with edges of all five policies, the last one a binding
C5_Witness ==
    /\ pc = "done"
    /\ Len(edges) >= 7
    /\ {PolicyRank(edges[n].label) : n \in 1..Len(edges)} = 1..5
    /\ edges[Len(edges)].id = EdgeId(Len(edges))
    /\ edges[Len(edges)].label = "Stores/Reads"

-----------------------------------------------------------------------------
(* C6 *)

\* C6: a pool never yields more labels than it was loaded with; a run whose
\* file holds fewer labels of a category than the build draws never gets past
\* the node build, appends no edge and writes nothing; the error of a pop from
\* an empty pool ends the run, with the pool used up and leaves still missing.
C6_ExhaustionAborts ==
    /\ \A cat \in Categories :
          /\ Len(Drawn(cat)) <= Len(Loaded(cat))
          /\ Len(Loaded(cat)) < Demand(cfg)[cat] =>
                 ~BuildComplete /\ edges = <<>> /\ written = <<>>
    /\ error = PopFromEmpty =>
          /\ pc = "aborted"
          /\ \E cat \in Categories :
                /\ resource_labels[cat] = <<>>
                /\ Len(Drawn(cat)) = Len(Loaded(cat))
                /\ Len(Loaded(cat)) < Demand(cfg)[cat]

\* the build asked for two functions with one label in the pool: it stopped
\* with one function node
C6_Witness ==
    /\ error = PopFromEmpty
    /\ cfg.lambdas = 2
    /\ Len(Loaded("lambda_function")) = 1
    /\ Len(LeafNodes("lambda")) = 1
    /\ pc = "aborted"

-----------------------------------------------------------------------------
(* C7 *)

\* C7 as stated: when random.sample fails, the run is aborted with the node
\* list complete, nothing written, and no edge in the edge list.
C7_NoEdgeOnSampleFailure ==
    error = SampleTooLarge =>
        /\ pc = "aborted"
        /\ Len(nodes) = NodeTotal
        /\ written = <<>>
        /\ edges = <<>>

\* C7, amended: a sample of more than the services fails and ends the run
\* with the node list complete and nothing written.  No edge of the failing
\* policy is ever appended: with too many gateway targets the edge list stays
\* empty, with too many object stores it holds no binding (the edges of the
\* four earlier policies are in the list when the run ends, and are never
\* written).  A run that goes on to write has one binding per object store.
C7_SampleFailure ==
    /\ error = SampleTooLarge =>
          /\ pc = "aborted"
          /\ Len(nodes) = NodeTotal
          /\ written = <<>>
          /\ cfg.targets > Len(Services) \/ cfg.buckets > Len(Services)
    /\ cfg.targets > Len(Services) =>
          /\ edges = <<>>
          /\ pc \notin (EdgePhases \ {"sample_routes"}) \cup {"write", "done"}
    /\ cfg.buckets > Len(Services) =>
          /\ EdgesOf("Stores/Reads") = <<>>
          /\ pc \notin {"bindings", "write", "done"}
    /\ pc \in {"write", "done"} => Len(EdgesOf("Stores/Reads")) = cfg.buckets

\* three object stores for two services: the run ended at the sample of the
\* storage bindings, after the access and call edges were appended
C7_Witness ==
    /\ error = SampleTooLarge
    /\ cfg.buckets = 3
    /\ Len(Services) = 2
    /\ Len(EdgesOf("Reads/Writes")) >= 2
    /\ Len(EdgesOf("API Call")) >= 2

-----------------------------------------------------------------------------
(* C8 *)

\* C8: a table is written only by a run without error whose load, node build
\* and five policies are over; the tables are written in the order nodes,
\* edges, layers; an error ends the run for good, with no table written.
C8_AllOrNothing ==
    /\ written # <<>> =>
          /\ pc \in {"write", "done"}
          /\ error = "none"
          /\ row = Len(csv)
          /\ Len(nodes) = NodeTotal
          /\ Len(EdgesOf("API Route")) = cfg.targets
          /\ Len(EdgesOf("Stores/Reads")) = cfg.buckets
    /\ written = SubSeq(OutputFiles, 1, Len(written))
    /\ pc = "done" => written = OutputFiles
    /\ error # "none" <=> pc = "aborted"
    /\ pc = "aborted" => written = <<>>

\* a run that ended on random.choice of an empty list, with edges of earlier
\* policies in memory and nothing written
C8_Witness ==
    /\ pc = "aborted"
    /\ error = ChoiceFromEmpty
    /\ Len(edges) >= 2
    /\ Len(nodes) = NodeTotal
    /\ written = <<>>

-----------------------------------------------------------------------------
(* C9 *)

\* C9: every route edge goes from the gateway instance to a function or a
\* container, no two route edges share a target, and once the routing policy
\* is over there are exactly NUM_API_GATEWAY_TARGETS of them; when that is the
\* number of services, every service is the target of a route.
C9_GatewayRoutes ==
    LET routes == EdgesOf("API Route")
        targets == [n \in 1..Len(routes) |-> routes[n].target]
    IN  /\ \A n \in 1..Len(routes) : routes[n].source = "api_gateway_instance"
        /\ Range(targets) \subseteq Range(Services)
        /\ IsDistinct(targets)
        /\ pc \in (EdgePhases \ {"sample_routes", "routes"}) \cup {"write", "done"} =>
              /\ Len(routes) = cfg.targets
              /\ cfg.targets = Len(Services) => Range(targets) = Range(Services)

\* a complete run with two targets sampled from one function and one container
C9_Witness ==
    /\ pc = "done"
    /\ cfg.targets = 2
    /\ Len(Services) = 2
    /\ Len(EdgesOf("API Route")) = 2

-----------------------------------------------------------------------------
(* C10 *)

\* C10: the n-th binding edge goes from a function or a container to the n-th
\* object store, no two binding edges share a source, and once the policy is
\* over every object-store node is the target of exactly one binding edge.
C10_StorageBindings ==
    LET bindings == EdgesOf("Stores/Reads")
        sources == [n \in 1..Len(bindings) |-> bindings[n].source]
        stores == LeafNodes("s3")
    IN  /\ Range(sources) \subseteq Range(Services)
        /\ IsDistinct(sources)
        /\ \A n \in 1..Len(bindings) : \E m \in 1..Len(stores) : bindings[n].target = stores[m].id
        /\ pc \in {"write", "done"} =>
              /\ Len(bindings) = cfg.buckets
              /\ \A m \in 1..Len(stores) :
                    Cardinality({n \in 1..Len(bindings) : bindings[n].target = stores[m].id}) = 1

\* a complete run with two object stores bound to the two services
C10_Witness ==
    /\ pc = "done"
    /\ cfg.buckets = 2
    /\ Len(LeafNodes("s3")) = 2
    /\ Len(EdgesOf("Stores/Reads")) = 2
    /\ EdgesOf("Stores/Reads")[1].source # EdgesOf("Stores/Reads")[2].source

-----------------------------------------------------------------------------
(* C11 *)

\* the ids of a sequence of node rows, in order
IdsOf(rows) == [n \in 1..Len(rows) |-> rows[n].id]

\* the table leaves of one engine, in build order
TablesOf(d) == SelectSeq(nodes, LAMBDA r : r.layer = "table" /\ r.belongs_to = d)

\* C11: at every step the ids of the nodes are pairwise distinct (the fixed
\* ids of the root, the partitions, the engines and the gateway instance as
\* well as the generated ids of the leaves), and the leaves of each category
\* (the tables of each engine, the functions, the containers, the stored
\* procedures, the object stores) carry the indices 1, 2, ... in build order,
\* up to the configured count once the build is over.
C11_NodeIdsDistinct ==
    LET lambdas == LeafNodes("lambda")
        containers == LeafNodes("container")
        procs == LeafNodes("stored_proc")
        buckets == LeafNodes("s3")
    IN  /\ Cardinality(NodeIds) = Len(nodes)
        /\ IdsOf(lambdas) = [n \in 1..Len(lambdas) |-> LambdaId(n)]
        /\ IdsOf(containers) = [n \in 1..Len(containers) |-> ContainerId(n)]
        /\ IdsOf(procs) = [n \in 1..Len(procs) |-> StoredProcId(n)]
        /\ IdsOf(buckets) = [n \in 1..Len(buckets) |-> S3Id(n)]
        /\ \A d \in Range(DBS) :
              LET tables == TablesOf(d)
              IN  /\ IdsOf(tables) = [n \in 1..Len(tables) |-> TableId(d, n)]
                  /\ BuildComplete => Len(tables) = cfg.tables
        /\ BuildComplete =>
              /\ Len(lambdas) = cfg.lambdas
              /\ Len(containers) = cfg.containers
              /\ Len(procs) = cfg.procs
              /\ Len(buckets) = cfg.buckets

\* a finished build with two tables in each engine
C11_Witness ==
    /\ BuildComplete
    /\ cfg.tables = 2
    /\ Len(TablesOf(DBS[1])) = 2
    /\ Len(TablesOf(DBS[2])) = 2
    /\ Len(nodes) = NodeTotal

-----------------------------------------------------------------------------
(* C12 *)

\* the eight fixed layer tags
LayerTags ==
    {"database", "table", "lambda", "container", "stored_proc", "api_gateway", "s3", "root"}

\* the Layer collection has exactly one record for each of the eight tags,
\* and each record is the tag, its capitalised label and its three colours
LayersOnePerTag ==
    /\ Len(layers) = Cardinality(LayerTags)
    /\ \A t \in LayerTags :
          Cardinality({n \in 1..Len(layers) : layers[n][1] = t}) = 1
    /\ \A n \in 1..Len(layers) :
          /\ Len(layers[n]) = 5
          /\ layers[n][2] = Capitalize(layers[n][1])
          /\ SubSeq(layers[n], 3, 5) = LAYER_COLORS[layers[n][1]]

-----------------------------------------------------------------------------
(* C13 *)

\* the access edges of one service, in the order they were appended
AccessOf(service) ==
    SelectSeq(edges, LAMBDA e : e.label = "Reads/Writes" /\ e.source = service)

\* the ids of the table leaf nodes built so far
TableNodeIds == {nodes[n].id : n \in {m \in 1..Len(nodes) : nodes[m].layer = "table"}}

\* the access policy has run to its end
AccessOver ==
    \/ pc \in {"exec", "exec_edges", "calls", "calls_edges", "sample_bindings",
               "bindings", "write", "done"}
    \/ pc = "aborted" /\ error = ChoiceFromEmpty

\* what C13 says of the edges: every access edge goes from a function or a
\* container to a table leaf node of one of the engines; no service has more
\* access edges than the upper bound of the range; a service the policy is
\* done with has a number of access edges within the range, a service the
\* policy has not reached has none.
AccessEdgesInRange ==
    LET access == EdgesOf("Reads/Writes")
        services == Services
        tableIds == {TableId(d, t) : d \in Range(DBS), t \in 1..cfg.tables}
        tableNodes == TableNodeIds
        inAccess == pc \in {"access", "access_edges"}
        over == AccessOver
    IN  /\ \A n \in 1..Len(access) :
              /\ access[n].source \in Range(services)
              /\ access[n].target \in tableNodes
              /\ access[n].target \in tableIds
        /\ \A n \in 1..Len(services) :
              LET mine == Cardinality({m \in 1..Len(access) : access[m].source = services[n]})
              IN  /\ mine <= ACCESS_MAX
                  /\ (over \/ (inAccess /\ n <= i)) => mine >= ACCESS_MIN
                  /\ (inAccess /\ n > i + 1) => mine = 0
                  /\ (pc = "access" /\ n > i) => mine = 0
                  /\ (pc = "access_edges" /\ n = i + 1) => mine = k /\ k < count

\* C13 as stated: the access edges are as described and the policy never
\* fails: no run with a function or a container ends on the ValueError of
\* random.randint(1, NUM_TABLES_PER_DB).
C13_AccessNeverFails ==
    /\ AccessEdgesInRange
    /\ Len(Services) > 0 => error # EmptyRange

\* C13, amended: the access edges are as described; the policy fails only
\* when the engines have no table: with at least one table per engine no run
\* ends on the ValueError of an empty range, however many edges are drawn per
\* service; with no table and at least one service the run ends at the first
\* access edge, before any access edge is appended.
C13_AccessEdges ==
    /\ AccessEdgesInRange
    /\ cfg.tables >= 1 => error # EmptyRange
    /\ (cfg.tables = 0 /\ Len(Services) > 0) =>
          /\ ~AccessOver
          /\ EdgesOf("Reads/Writes") = <<>>
          /\ pc \notin {"write", "done"}
    /\ (error = EmptyRange /\ Len(Services) > 0) =>
          /\ pc = "aborted"
          /\ i = 0 /\ k = 0
          /\ written = <<>>

\* a complete run with one table per engine in which a service drew two
\* access edges, both to the same table
C13_Witness ==
    /\ pc = "done"
    /\ cfg.tables = 1
    /\ \E n \in 1..Len(Services) :
          LET mine == AccessOf(Services[n])
          IN  /\ Len(mine) = 2
              /\ mine[1].target = mine[2].target
    /\ \E n \in 1..Len(Services) : Len(AccessOf(Services[n])) = 1

-----------------------------------------------------------------------------
(* C14 *)

\* the execution edges of one stored procedure, in the order they were appended
ExecOf(proc) ==
    SelectSeq(edges, LAMBDA e : e.label = "Executes" /\ e.source = proc)

\* the execution policy has run to its end
ExecOver ==
    \/ pc \in {"calls", "calls_edges", "sample_bindings", "bindings", "write", "done"}
    \/ pc = "aborted" /\ error = ChoiceFromEmpty
    \/ pc = "aborted" /\ error = SampleTooLarge /\ cfg.targets <= Len(Services)

\* C14: every execution edge goes from a stored-procedure node to a table
\* leaf node; all execution edges of one procedure target tables of one
\* single engine; no procedure has more execution edges than the upper bound
\* of the range, a procedure the policy is done with has a number of them
\* within the range, a procedure the policy has not reached has none; while
\* the edges of a procedure are drawn they all target the engine picked for it.
C14_ExecEdges ==
    LET exec == EdgesOf("Executes")
        procs == StoredProcIds
        procNodes == IdsOf(LeafNodes("stored_proc"))
        tableNodes == TableNodeIds
        tablesOf == [d \in Range(DBS) |-> {TableId(d, t) : t \in 1..cfg.tables}]
        inExec == pc \in {"exec", "exec_edges"}
        over == ExecOver
    IN  /\ \A n \in 1..Len(exec) :
              /\ exec[n].source \in Range(procNodes)
              /\ exec[n].target \in tableNodes
        /\ BuildComplete => procNodes = procs
        /\ \A n \in 1..Len(procs) :
              LET mine == SelectSeq(exec, LAMBDA e : e.source = procs[n])
              IN  /\ \E d \in Range(DBS) :
                        \A m \in 1..Len(mine) : mine[m].target \in tablesOf[d]
                  /\ Len(mine) <= EXEC_MAX
                  /\ (over \/ (inExec /\ n <= i)) => Len(mine) >= EXEC_MIN
                  /\ (pc = "exec" /\ n > i) => Len(mine) = 0
                  /\ (pc = "exec_edges" /\ n > i + 1) => Len(mine) = 0
                  /\ (pc = "exec_edges" /\ n = i + 1) =>
                         /\ Len(mine) = k /\ k < count
                         /\ db \in Range(DBS)
                         /\ \A m \in 1..Len(mine) : mine[m].target \in tablesOf[db]

\* the execution policy is over for two procedures: the first drew two
\* edges to tables of the first engine, the second to tables of the second
C14_Witness ==
    /\ ExecOver
    /\ cfg.procs = 2
    /\ cfg.tables = 1
    /\ Len(ExecOf(StoredProcId(1))) = 2
    /\ \A m \in 1..2 : ExecOf(StoredProcId(1))[m].target = TableId(DBS[1], 1)
    /\ Len(ExecOf(StoredProcId(2))) >= 1
    /\ ExecOf(StoredProcId(2))[1].target = TableId(DBS[2], 1)

-----------------------------------------------------------------------------
(* C15 *)

\* the layers of the nodes that carry an id (one layer, as ids are distinct)
LayersOfNode(node_id) ==
    {nodes[n].layer : n \in {m \in 1..Len(nodes) : nodes[m].id = node_id}}

\* C15 as stated: the layer of every edge is the layer of the node at the
\* source of the edge.
C15_LayerOfSource ==
    \A n \in 1..Len(edges) : LayersOfNode(edges[n].source) = {edges[n].layer}

\* the policies whose edges carry the layer of their source node, and those
\* whose edges carry the layer of their target node
SourceLayered == {"API Route", "Executes", "API Call"}
TargetLayered == {"Reads/Writes", "Stores/Reads"}

\* the id and the layer of every node built so far
NodeLayers == {<<nodes[n].id, nodes[n].layer>> : n \in 1..Len(nodes)}

\* C15, amended: the layer of every edge is the layer of one of its
\* endpoints, fixed by the policy: the layer of the source node for routes,
\* executions and peer calls, the layer of the target node (table, s3) for
\* access edges and storage bindings, whose source is a function or a
\* container and so has another layer.  (Node ids are distinct, so an id
\* has one layer.)
C15_LayerOfEndpoint ==
    LET nodeLayers == NodeLayers
    IN  \A n \in 1..Len(edges) :
            LET e == edges[n]
            IN  IF e.label \in SourceLayered
                THEN <<e.source, e.layer>> \in nodeLayers
                ELSE /\ e.label \in TargetLayered
                     /\ e.layer = IF e.label = "Reads/Writes" THEN "table" ELSE "s3"
                     /\ <<e.target, e.layer>> \in nodeLayers
                     /\ \/ <<e.source, "lambda">> \in nodeLayers
                        \/ <<e.source, "container">> \in nodeLayers

\* a complete run with an access edge from a function, a binding from a
\* container, and peer calls in both directions
C15_Witness ==
    /\ pc = "done"
    /\ \E n \in 1..Len(edges) :
          edges[n].label = "Reads/Writes" /\ edges[n].source = LambdaId(1)
    /\ \E n \in 1..Len(edges) :
          edges[n].label = "Stores/Reads" /\ edges[n].source = ContainerId(1)
    /\ \E n \in 1..Len(edges) : edges[n].label = "API Call" /\ edges[n].layer = "container"
    /\ \E n \in 1..Len(edges) : edges[n].label = "API Call" /\ edges[n].layer = "lambda"
    /\ \E n \in 1..Len(edges) : edges[n].label = "Executes"
    /\ \E n \in 1..Len(edges) : edges[n].label = "API Route"

-----------------------------------------------------------------------------
(* C16 *)

LoadPhases == {"load", "shuffle"}

BuildPhases ==
    {"root", "partitions", "dbs", "tables", "lambdas", "containers", "procs",
     "gateway", "buckets"}

\* the place of a position of the script in the order of the phases
PhaseRank(p) ==
    CASE p \in LoadPhases       -> 1
      [] p \in BuildPhases      -> 2
      [] p \in EdgePhases       -> 3
      [] p \in {"write", "done"} -> 4
      [] p = "aborted"          -> 5

\* what one step may touch, by the phase it belongs to
PhaseFrame ==
    /\ PhaseRank(pc') >= PhaseRank(pc)
    /\ pc \in LoadPhases \cup BuildPhases =>
          /\ edges = <<>> /\ edges' = <<>>
          /\ edge_counter = 1 /\ edge_counter' = 1
    /\ pc \in LoadPhases => nodes = <<>> /\ nodes' = <<>>
    /\ pc \in BuildPhases =>
          \/ resource_labels' = resource_labels
          \/ \E cat \in Categories :
                /\ resource_labels[cat] # <<>>
                /\ resource_labels' = [resource_labels EXCEPT ![cat] = Front(@)]
                /\ Len(nodes') = Len(nodes) + 1
    /\ pc \in BuildPhases => SubSeq(nodes', 1, Len(nodes)) = nodes
    /\ pc \in EdgePhases =>
          /\ Len(nodes) = NodeTotal
          /\ nodes' = nodes
          /\ resource_labels' = resource_labels
          /\ SubSeq(edges', 1, Len(edges)) = edges
    /\ pc \in {"write", "done", "aborted"} =>
          /\ nodes' = nodes
          /\ resource_labels' = resource_labels
          /\ edges' = edges
          /\ edge_counter' = edge_counter

\* C16: the phases follow one another and never go back; no step of the load
\* or of the node build appends an edge or moves the edge counter (the edge
\* list is empty and the counter is 1 until the last node is built); every
\* step of the five policies leaves the node list, which is complete, and
\* the remaining label pools unchanged and only appends to the edge list;
\* once the pools are loaded and shuffled they are changed only by steps of
\* the node build, each of which pops one label for the node it appends;
\* writing changes none of them.
C16_PhaseFrames == [][PhaseFrame]_vars

\* a complete run whose function pool kept a spare label through the five
\* policies and whose edge counter moved only after the last node
C16_Witness ==
    /\ pc = "done"
    /\ Len(resource_labels["lambda_function"]) = 1
    /\ Len(nodes) = NodeTotal
    /\ Len(edges) >= 4
    /\ edge_counter = Len(edges) + 1

====
